---- MODULE Spec2Model ----
(***************************************************************************)
(* fitbit2garmin: the fetch / cache / encode pipeline of                   *)
(* commands.create_activity_tcx_or_fit, the retry wrapper                  *)
(* run_aiohttp_fitbit_api_call around every upstream call, and the two     *)
(* encoders create_tcx.create_tcx and create_fit.create_fit.               *)
(*                                                                         *)
(* Spec      the pipeline over the files of the cache directory and of the *)
(*           output directories, across runs, crashes and restarts.        *)
(* FairSpec  Spec with the fairness of the upstream answering.             *)
(* EncSpec   the encoders, applied to bounded inputs.                      *)
(***************************************************************************)
EXTENDS Integers, Sequences, FiniteSets, TLC

VARIABLES
    pc,          \* position of the running create_activity_tcx_or_fit, or "idle"
    status,      \* "running", or how the last run ended: "never", "done", "crashed", "aborted"
    runs,        \* number of runs started so far
    dir,         \* tcxs_directory of the current run
    isTcx,       \* is_tcx: the command is create-activity-tcx or create-activity-fit
    auth,        \* content of <cache>/.auth
    listFile,    \* content of <cache>/.exercises.<range>.jsonl (a sequence of lines) or Absent
    marker,      \* whether <cache>/.exercises.<range> exists
    subdirs,     \* the <dir>/<logId> directories that exist
    fs,          \* content of the per-activity files and of the encoder outputs
    activities,  \* the in-memory list returned by get_activity_log_list
    i,           \* activity_number of the loop over the list file
    tcx,         \* newline count of the payload returned by get_activity_tcx
    payload,     \* the bytes returned by the heart-rate or calorie call, or None
    wstage,      \* position inside the wrapper of run_aiohttp_fitbit_api_call
    wtoken,      \* the authorization returned by execute_oauth2_flow, not yet written
    retried,     \* whether the current wrapped call has been started again
    raised,      \* the exception the wrapper's loop has just caught, and where it rose
    surfaced,    \* the exception that ended the last run, or "none"
    calls,       \* the upstream calls sent during the current run
    fetched,     \* the list most recently returned by the upstream list call
    markerAtStart, \* whether the marker existed when the current run started
    listAtStart, \* the content of the list file when the current run started
    enc,         \* what the encoder call of the current activity read and wrote
    encIn,       \* the inputs of one encoder application (EncSpec)
    encOut       \* the result of one encoder application (EncSpec)

\* the files
diskVars == <<auth, listFile, marker, subdirs, fs>>
\* the directory argument of the run and what the run found when it started
runVars == <<dir, markerAtStart, listAtStart>>
\* the locals of create_activity_tcx_or_fit
localVars == <<activities, i, tcx, payload, calls, enc>>
\* the locals of the wrapper
wrapVars == <<wstage, wtoken, retried, raised>>
\* how runs ended
endVars == <<status, surfaced, runs, fetched>>
encVars == <<encIn, encOut>>
vars == <<pc, isTcx, diskVars, runVars, localVars, wrapVars, endVars, encVars>>

----------------------------------------------------------------------------
(* Bounds of the model *)

\* longest activity list the upstream returns
MaxActs == 2
\* runs of the command over the same date range
MaxRuns == 2

----------------------------------------------------------------------------
(* The upstream's activities.  An activity is identified by its logId; its  *)
(* fields are those the pipeline reads: logType, heartRateLink,             *)
(* caloriesLink.                                                            *)

LogIds == 1..3
Absent == "absent"
None == "None"
Missing == "missing"

logType(id) ==
    IF id \in {1, 3} THEN "auto_detected" ELSE "manual"

\* activity.get("heartRateLink", "missing")
heartRateLink(id) ==
    IF id \in {1, 2} THEN "hr-url" ELSE Missing

\* activity.get("caloriesLink", "missing")
caloriesLink(id) ==
    IF id \in {1, 3} THEN "cal-url" ELSE Missing

\* the lists get_activity_log_list may return: logIds in ascending order
IsAscending(s) ==
    \A k \in 1..(Len(s) - 1) : s[k] < s[k + 1]

ActivityLists ==
    {s \in UNION {[1..n -> LogIds] : n \in 0..MaxActs} : IsAscending(s)}

\* newline counts of the payload returned by get_activity_tcx
TcxNewlines == {15, 16}
TcxLineLimit == 15

Dirs == {"f2g", "out"}
Kinds == {"act", "hr", "cal", "tcx", "fit"}
Paths == Dirs \X LogIds \X Kinds
\* the authorizations the exchange hands out, in the order of their renewal
Tokens == {1, 2}

NoEnc == [id |-> 0, dir |-> "none"]
NoExc == [exc |-> "none", at |-> "none"]

\* .auth does not exist
NoAuth == 0

\* the list file does not exist
NoList == [exists |-> FALSE, lines |-> <<>>]

\* f"{tcxs_directory}/{log_id}/exercise-<kind>.json" and the encoder outputs
File(d, id, kind) == <<d, id, kind>>

\* the content of a file: fs holds the files that exist
Content(p) == IF p \in DOMAIN fs THEN fs[p] ELSE Absent

\* a file is created or its content replaced
Put(p, c) == [q \in DOMAIN fs \cup {p} |-> IF q = p THEN c ELSE fs[q]]

\* the activity of the current iteration of the loop over the list file
log_id == listFile.lines[i]

----------------------------------------------------------------------------
(* The end of a run: the process is gone, and its memory with it *)

Exit(how, exc) ==
    /\ pc' = "idle"
    /\ status' = how
    /\ surfaced' = exc
    /\ dir' = "f2g"
    /\ markerAtStart' = FALSE
    /\ listAtStart' = NoList
    /\ activities' = <<>>
    /\ i' = 0
    /\ tcx' = 0
    /\ payload' = None
    /\ calls' = {}
    /\ enc' = NoEnc
    /\ wstage' = "none"
    /\ wtoken' = NoAuth
    /\ retried' = FALSE
    /\ raised' = NoExc
    /\ UNCHANGED <<isTcx, runs, fetched>>

----------------------------------------------------------------------------
(* run_aiohttp_fitbit_api_call *)

CallPcs == {"listCall", "tcxCall", "hrCall", "calCall"}

\* the call a position of the pipeline wraps: <<name, logId>>
CallOf(p) ==
    CASE p = "listCall" -> <<"list", 0>>
      [] p = "tcxCall" -> <<"tcx", log_id>>
      [] p = "hrCall" -> <<"hr", log_id>>
      [] p = "calCall" -> <<"cal", log_id>>

\* raise_for_status of the session: True unless the call passes False
raise_for_status(p) == p # "calCall"

\* a bug: only the timeout is caught
Retryable_timeoutOnly(exc) == exc = "TimeoutError"

\* a bug: every exception is caught
Retryable_all(exc) == TRUE

\* the except clauses of the wrapper's loop
Retryable(exc) == exc \in {"ClientResponseError", "TimeoutError"}

\* the authorizations execute_oauth2_flow may return for the stored one:
\* the stored one, still valid, or its renewal
OAuthTokens(authorization) ==
    IF authorization = NoAuth
        THEN {1}
        ELSE {authorization} \cup {t \in Tokens : t = authorization + 1}

\* the ways execute_oauth2_flow may fail
OAuthFailures == {"ClientResponseError", "TimeoutError", "OAuthError"}

\* the ways the wrapped coroutine may fail
SendFailures(p) ==
    {"TimeoutError", "ValueError"}
        \cup (IF raise_for_status(p) THEN {"ClientResponseError"} ELSE {})

\* what the wrapped coroutine may return
Results(p) ==
    CASE p = "listCall" -> ActivityLists
      [] p = "tcxCall" -> TcxNewlines
      [] p = "hrCall" -> {"bytes"}
      [] p = "calCall" -> {"bytes", None}

\* an exception rises inside the try of the wrapper's loop, from the exchange
\* ("oauth") or from the wrapped coroutine ("send"): continue, or propagate
Failure(exc, at) ==
    IF Retryable(exc)
        THEN /\ wstage' = "auth"
             /\ wtoken' = NoAuth
             /\ retried' = TRUE
             /\ raised' = [exc |-> exc, at |-> at]
             /\ UNCHANGED <<pc, isTcx, runVars, activities, i, tcx, payload, enc,
                            endVars>>
        ELSE Exit("aborted", exc)

\* enter the wrapper at position p
Enter(p) ==
    /\ pc' = p
    /\ wstage' = "auth"
    /\ retried' = FALSE
    /\ UNCHANGED <<wtoken, raised>>

\* the statements after "return result" of each wrapped call
Return(p, result) ==
    /\ wstage' = "none"
    /\ wtoken' = NoAuth
    /\ retried' = FALSE
    /\ raised' = NoExc
    /\ CASE p = "listCall" ->
              /\ activities' = result
              /\ fetched' = result
              /\ pc' = "openList"
              /\ UNCHANGED <<tcx, payload>>
         [] p = "tcxCall" ->
              /\ tcx' = result
              /\ pc' = "actFile"
              /\ UNCHANGED <<activities, fetched, payload>>
         [] p = "hrCall" ->
              /\ payload' = result
              /\ pc' = "hrOpen"
              /\ UNCHANGED <<activities, fetched, tcx>>
         [] p = "calCall" ->
              /\ payload' = result
              /\ pc' = IF result # None THEN "calOpen" ELSE "encode"
              /\ UNCHANGED <<activities, fetched, tcx>>

\* lines 32-40: read .auth, execute_oauth2_flow
wrapper_authorize ==
    /\ pc \in CallPcs
    /\ wstage = "auth"
    /\ \/ \E t \in OAuthTokens(auth) :
            /\ wtoken' = t
            /\ wstage' = "write"
            /\ raised' = NoExc
            /\ UNCHANGED <<pc, isTcx, runVars, localVars, retried, endVars>>
       \/ \E exc \in OAuthFailures :
            /\ Failure(exc, "oauth")
            /\ IF Retryable(exc) THEN UNCHANGED calls ELSE TRUE
    /\ UNCHANGED <<diskVars, encVars>>

\* lines 41-43: write the authorization to .auth
wrapper_write_auth ==
    /\ pc \in CallPcs
    /\ wstage = "write"
    /\ auth' = wtoken
    /\ wstage' = "send"
    /\ UNCHANGED <<pc, isTcx, listFile, marker, subdirs, fs, runVars, localVars,
                   wtoken, retried, raised, endVars, encVars>>

\* lines 44-53: await func(session, bearer_token, ...), then return or retry
wrapper_send ==
    /\ pc \in CallPcs
    /\ wstage = "send"
    /\ \/ \E result \in Results(pc) :
            /\ Return(pc, result)
            /\ calls' = calls \cup {CallOf(pc)}
            /\ UNCHANGED <<isTcx, runVars, i, enc, status, surfaced, runs>>
       \/ \E exc \in SendFailures(pc) :
            /\ Failure(exc, "send")
            /\ IF Retryable(exc) THEN calls' = calls \cup {CallOf(pc)} ELSE TRUE
    /\ UNCHANGED <<diskVars, encVars>>

----------------------------------------------------------------------------
(* create_activity_tcx_or_fit *)

Exists(d, id, kind) == Content(File(d, id, kind)) # Absent

\* a bug: the list is fetched on every run
NeedListFetch_always == TRUE

\* line 75: not activity_log_file_path.exists() or not activity_log_done_file_path.exists()
NeedListFetch == ~listFile.exists \/ ~marker

\* a bug: only an activity without a heart-rate link and without a TCX payload is left out
ProcessGate_unlessUnlinked(id, newlines) ==
    ~ /\ (logType(id) = "auto_detected" \/ newlines <= TcxLineLimit)
      /\ heartRateLink(id) = Missing

\* lines 119-121: the activity is fetched and encoded
ProcessGate(id, newlines) ==
    /\ (logType(id) = "auto_detected" \/ newlines <= TcxLineLimit)
    /\ heartRateLink(id) # Missing

\* the command is invoked: cli.create_activity_tcx / cli.create_activity_fit
start_run(d) ==
    /\ pc = "idle"
    /\ runs < MaxRuns
    /\ runs' = runs + 1
    /\ dir' = d
    /\ pc' = "checkList"
    /\ status' = "running"
    /\ surfaced' = "none"
    /\ markerAtStart' = marker
    /\ listAtStart' = listFile
    /\ UNCHANGED <<isTcx, diskVars, localVars, wrapVars, fetched, encVars>>

\* lines 75-82: fetch the activity log unless the list file and its marker exist
check_activity_log ==
    /\ pc = "checkList"
    /\ IF NeedListFetch
          THEN Enter("listCall")
          ELSE /\ pc' = "count"
               /\ UNCHANGED wrapVars
    /\ UNCHANGED <<isTcx, diskVars, runVars, localVars, endVars, encVars>>

\* a bug: the marker is touched when the list file is opened
activity_log_open_touchFirst ==
    /\ pc = "openList"
    /\ listFile' = [exists |-> TRUE, lines |-> <<>>]
    /\ marker' = TRUE
    /\ pc' = "writeList"
    /\ UNCHANGED <<isTcx, auth, subdirs, fs, runVars, localVars, wrapVars, endVars,
                   encVars>>

\* line 83: activity_log_file_path.open("w") truncates the list file
activity_log_open ==
    /\ pc = "openList"
    /\ listFile' = [exists |-> TRUE, lines |-> <<>>]
    /\ pc' = "writeList"
    /\ UNCHANGED <<isTcx, auth, marker, subdirs, fs, runVars, localVars, wrapVars,
                   endVars, encVars>>

\* lines 84-85: one json line per activity; the file is closed after the last
activity_log_print ==
    /\ pc = "writeList"
    /\ IF Len(listFile.lines) < Len(activities)
          THEN /\ listFile' = [listFile EXCEPT
                                 !.lines = Append(@, activities[Len(@) + 1])]
               /\ pc' = "writeList"
          ELSE /\ pc' = "touch"
               /\ UNCHANGED listFile
    /\ UNCHANGED <<isTcx, auth, marker, subdirs, fs, runVars, localVars, wrapVars,
                   endVars, encVars>>

\* line 86: activity_log_done_file_path.touch()
activity_log_touch ==
    /\ pc = "touch"
    /\ marker' = TRUE
    /\ pc' = "count"
    /\ UNCHANGED <<isTcx, auth, listFile, subdirs, fs, runVars, localVars, wrapVars,
                   endVars, encVars>>

\* lines 90-95: count the lines, start the loop over the list file
count_activities ==
    /\ pc = "count"
    /\ i' = 1
    /\ pc' = "nextAct"
    /\ UNCHANGED <<isTcx, diskVars, runVars, activities, tcx, payload, calls, enc,
                   wrapVars, endVars, encVars>>

\* lines 95-108: next line of the list file, its directory, get_activity_tcx;
\* the coroutine returns after the last line
next_activity ==
    /\ pc = "nextAct"
    /\ IF i <= Len(listFile.lines)
          THEN /\ subdirs' = subdirs \cup {<<dir, log_id>>}
               /\ Enter("tcxCall")
               /\ enc' = NoEnc
               /\ UNCHANGED <<isTcx, runVars, activities, i, tcx, payload, calls,
                              endVars>>
          ELSE /\ Exit("done", "none")
               /\ UNCHANGED subdirs
    /\ UNCHANGED <<auth, listFile, marker, fs, encVars>>

\* a bug: exercise-activity.json is opened for writing whether it exists or not
activity_file_open_overwrite ==
    /\ pc = "actFile"
    /\ fs' = Put(File(dir, log_id, "act"), "partial")
    /\ pc' = "actDump"
    /\ UNCHANGED <<isTcx, auth, listFile, marker, subdirs, runVars, localVars,
                   wrapVars, endVars, encVars>>

\* lines 112-116: exercise-activity.json is opened for writing when absent
activity_file_open ==
    /\ pc = "actFile"
    /\ IF Exists(dir, log_id, "act")
          THEN /\ pc' = "gate"
               /\ UNCHANGED fs
          ELSE /\ fs' = Put(File(dir, log_id, "act"), "partial")
               /\ pc' = "actDump"
    /\ UNCHANGED <<isTcx, auth, listFile, marker, subdirs, runVars, localVars,
                   wrapVars, endVars, encVars>>

\* line 117: json.dump(activity, fw), the file is closed
activity_file_dump ==
    /\ pc = "actDump"
    /\ fs' = Put(File(dir, log_id, "act"), "full")
    /\ pc' = "gate"
    /\ UNCHANGED <<isTcx, auth, listFile, marker, subdirs, runVars, localVars,
                   wrapVars, endVars, encVars>>

\* a bug: the heart rate is fetched whether its file exists or not
decision_gate_refetch ==
    /\ pc = "gate"
    /\ IF ProcessGate(log_id, tcx)
          THEN Enter("hrCall")
          ELSE /\ pc' = "confirm"
               /\ UNCHANGED wrapVars
    /\ UNCHANGED <<isTcx, diskVars, runVars, localVars, endVars, encVars>>

\* lines 119-126 and 160-161: the decision gate, then the heart-rate cache check
decision_gate ==
    /\ pc = "gate"
    /\ IF ProcessGate(log_id, tcx)
          THEN IF Exists(dir, log_id, "hr")
                  THEN /\ pc' = "calCheck"
                       /\ UNCHANGED wrapVars
                  ELSE Enter("hrCall")
          ELSE /\ pc' = "confirm"
               /\ UNCHANGED wrapVars
    /\ UNCHANGED <<isTcx, diskVars, runVars, localVars, endVars, encVars>>

\* line 134: exercise-heart-rate.json is opened "wb"
heart_rate_open ==
    /\ pc = "hrOpen"
    /\ fs' = Put(File(dir, log_id, "hr"), "partial")
    /\ pc' = "hrWrite"
    /\ UNCHANGED <<isTcx, auth, listFile, marker, subdirs, runVars, localVars,
                   wrapVars, endVars, encVars>>

\* line 135: fw.write(heart_rate), the file is closed
heart_rate_write ==
    /\ pc = "hrWrite"
    /\ fs' = Put(File(dir, log_id, "hr"), "full")
    /\ pc' = "calCheck"
    /\ UNCHANGED <<isTcx, auth, listFile, marker, subdirs, runVars, localVars,
                   wrapVars, endVars, encVars>>

\* lines 137-150: the calories link and the calories cache check
calories_check ==
    /\ pc = "calCheck"
    /\ IF caloriesLink(log_id) # Missing /\ ~Exists(dir, log_id, "cal")
          THEN Enter("calCall")
          ELSE /\ pc' = "encode"
               /\ UNCHANGED wrapVars
    /\ UNCHANGED <<isTcx, diskVars, runVars, localVars, endVars, encVars>>

\* lines 151-153: exercise-calories.json is opened "wb" (calories != None)
calories_open ==
    /\ pc = "calOpen"
    /\ fs' = Put(File(dir, log_id, "cal"), "partial")
    /\ pc' = "calWrite"
    /\ UNCHANGED <<isTcx, auth, listFile, marker, subdirs, runVars, localVars,
                   wrapVars, endVars, encVars>>

\* line 154: fw.write(calories), the file is closed
calories_write ==
    /\ pc = "calWrite"
    /\ fs' = Put(File(dir, log_id, "cal"), "full")
    /\ pc' = "encode"
    /\ UNCHANGED <<isTcx, auth, listFile, marker, subdirs, runVars, localVars,
                   wrapVars, endVars, encVars>>

\* lines 161-162: the skip is logged, input() waits for the operator
skip_confirm ==
    /\ pc = "confirm"
    /\ i' = i + 1
    /\ pc' = "nextAct"
    /\ UNCHANGED <<isTcx, diskVars, runVars, activities, tcx, payload, calls, enc,
                   wrapVars, endVars, encVars>>

\* the process is killed at any point of a run; the files stay as they are
crash ==
    /\ pc # "idle"
    /\ Exit("crashed", "none")
    /\ UNCHANGED <<diskVars, encVars>>

----------------------------------------------------------------------------
(* The encoder call of the pipeline: create_tcx(log_id) / create_fit(log_id) *)

\* the directory of HEART_RATE_FILE, CALORIES_FILE, ACTIVITY_FILE, OUTPUT_FILE
EncoderDir == "f2g"

\* OUTPUT_FILE is exercise-<log_id>.tcx or exercise-<log_id>.fit
OutKind == IF isTcx THEN "tcx" ELSE "fit"

\* the exception raised while the three input files are loaded, or "none":
\* open() of an absent file, json.load of a truncated one; only the
\* FileNotFoundError of the calories file is caught
LoadError(id) ==
    CASE Content(File(EncoderDir, id, "hr")) = Absent -> "FileNotFoundError"
      [] Content(File(EncoderDir, id, "hr")) = "partial" -> "JSONDecodeError"
      [] Content(File(EncoderDir, id, "cal")) = "partial" -> "JSONDecodeError"
      [] Content(File(EncoderDir, id, "act")) = Absent -> "FileNotFoundError"
      [] Content(File(EncoderDir, id, "act")) = "partial" -> "JSONDecodeError"
      [] OTHER -> "none"

\* what the encoder writes: the records, with or without calorie values
OutContent(id) ==
    IF Content(File(EncoderDir, id, "cal")) = "full" THEN "out_cal" ELSE "out_nocal"

\* lines 156-159 of commands.py; the encoder loads its three files
encoder_load ==
    /\ pc = "encode"
    /\ IF LoadError(log_id) # "none"
          THEN Exit("aborted", LoadError(log_id))
          ELSE /\ pc' = "encOpen"
               /\ enc' = [id |-> log_id, dir |-> EncoderDir]
               /\ UNCHANGED <<isTcx, runVars, activities, i, tcx, payload, calls,
                              wrapVars, endVars>>
    /\ UNCHANGED <<diskVars, encVars>>

\* tree.write(OUTPUT_FILE) / to_file(OUTPUT_FILE) opens the output, truncating it
encoder_open ==
    /\ pc = "encOpen"
    /\ fs' = Put(File(enc.dir, log_id, OutKind), "partial")
    /\ pc' = "encWrite"
    /\ UNCHANGED <<isTcx, auth, listFile, marker, subdirs, runVars, localVars,
                   wrapVars, endVars, encVars>>

\* the output is written and closed; the loop goes on to the next activity
encoder_write ==
    /\ pc = "encWrite"
    /\ fs' = Put(File(enc.dir, log_id, OutKind), OutContent(log_id))
    /\ i' = i + 1
    /\ pc' = "nextAct"
    /\ UNCHANGED <<isTcx, auth, listFile, marker, subdirs, runVars, activities, tcx,
                   payload, calls, enc, wrapVars, endVars, encVars>>

----------------------------------------------------------------------------
(* The pipeline's specification *)

EncIdle == [mode |-> "none"]

PipeInit ==
    /\ pc = "idle"
    /\ status = "never"
    /\ surfaced = "none"
    /\ runs = 0
    /\ fetched = <<>>
    /\ auth = NoAuth
    /\ listFile = NoList
    /\ marker = FALSE
    /\ subdirs = {}
    /\ fs = <<>>
    /\ dir = "f2g"
    /\ isTcx \in BOOLEAN
    /\ markerAtStart = FALSE
    /\ listAtStart = NoList
    /\ activities = <<>>
    /\ i = 0
    /\ tcx = 0
    /\ payload = None
    /\ calls = {}
    /\ enc = NoEnc
    /\ wstage = "none"
    /\ wtoken = NoAuth
    /\ retried = FALSE
    /\ raised = NoExc

Init ==
    /\ PipeInit
    /\ encIn = EncIdle
    /\ encOut = EncIdle

Next ==
    \/ \E d \in Dirs : start_run(d)
    \/ check_activity_log
    \/ wrapper_authorize
    \/ wrapper_write_auth
    \/ wrapper_send
    \/ activity_log_open
    \/ activity_log_print
    \/ activity_log_touch
    \/ count_activities
    \/ next_activity
    \/ activity_file_open
    \/ activity_file_dump
    \/ decision_gate
    \/ heart_rate_open
    \/ heart_rate_write
    \/ calories_check
    \/ calories_open
    \/ calories_write
    \/ encoder_load
    \/ encoder_open
    \/ encoder_write
    \/ skip_confirm
    \/ crash

Spec == Init /\ [][Next]_vars

\* the first run of the command
first_run(d) ==
    /\ runs = 0
    /\ start_run(d)

\* one run of the command
RunNext ==
    \/ \E d \in Dirs : first_run(d)
    \/ check_activity_log
    \/ wrapper_authorize
    \/ wrapper_write_auth
    \/ wrapper_send
    \/ activity_log_open
    \/ activity_log_print
    \/ activity_log_touch
    \/ count_activities
    \/ next_activity
    \/ activity_file_open
    \/ activity_file_dump
    \/ decision_gate
    \/ heart_rate_open
    \/ heart_rate_write
    \/ calories_check
    \/ calories_open
    \/ calories_write
    \/ encoder_load
    \/ encoder_open
    \/ encoder_write
    \/ skip_confirm
    \/ crash

\* the upstream answers the exchange
AuthorizeAnswered == wrapper_authorize /\ wstage' = "write"

\* the upstream answers the wrapped call
SendAnswered == wrapper_send /\ wstage' = "none" /\ status' = "running"

\* the upstream eventually answers successfully; the wrapper's own steps are taken
FairSpec ==
    /\ Init
    /\ [][RunNext]_vars
    /\ SF_vars(AuthorizeAnswered)
    /\ WF_vars(wrapper_write_auth)
    /\ SF_vars(SendAnswered)

----------------------------------------------------------------------------
(* The encoders: create_tcx.create_tcx and create_fit.create_fit.          *)
(* A local time is a time of day in seconds on the date of the heart-rate  *)
(* payload; an instant is in seconds of UTC since that date's midnight UTC. *)

\* heart-rate samples of an activity
MaxSamples == 2
\* entries of the calories dataset
MaxCalories == 1

\* utcoffset of startTime, in seconds: -07:00, +00:00, +05:30
Offsets == {0 - 7 * 3600, 0, 5 * 3600 + 1800}
\* activity["startTime"], the local time of day in seconds: 10:00:00, 23:59:00
StartTimes == {10 * 3600, 24 * 3600 - 60}
\* entry["time"] of the samples, "HH:MM:SS" as seconds of the day
SampleTimes == {59, 60, 24 * 3600 - 1}
SampleValues == {60, 120}
\* entry["time"] and entry["value"] of the calories dataset
CalorieTimes == {0, 60}
CalorieValues == {0, 6}
\* activity["duration"], in ms
Durations == {0, 60000, 120000}
\* activity.get("distance", 0.0), in km
Distances == {0, 1}

SeqsUpTo(S, n) == UNION {[1..k -> S] : k \in 0..n}

\* what exercise-calories.json may hold
CalorieFiles ==
    {[kind |-> k, dataset |-> <<>>] :
        k \in {"absent", "invalid_json", "no_dataset", "bad_entry"}}
    \cup {[kind |-> "ok", dataset |-> ds] :
            ds \in SeqsUpTo([time : CalorieTimes, value : CalorieValues], MaxCalories)}

EncInputs ==
    [off : Offsets,
     start : StartTimes,
     duration : Durations,
     distance : Distances,
     hr : SeqsUpTo([time : SampleTimes, value : SampleValues], MaxSamples),
     cal : CalorieFiles]

NoCal == <<>>

\* datetime.astimezone(timezone.utc): the instant of a local time
astimezone_utc(local, off) == local - off

\* datetime.replace(second=0, microsecond=0)
replace_second_0(local) == local - (local % 60)

\* strftime("%Y-%m-%dT%H:%M:%SZ"): the fields of the local time, then a literal Z
strftime_Z(local, off) == [text |-> local, suffix |-> "Z"]

\* the instant a Z-suffixed text denotes
InstantOfZ(t) == t.text

\* the calories file is loaded: json.load inside "except FileNotFoundError"
LoadCalories(cal) ==
    CASE cal.kind = "absent" -> [raised |-> "none", available |-> FALSE]
      [] cal.kind = "invalid_json" -> [raised |-> "JSONDecodeError", available |-> FALSE]
      [] OTHER -> [raised |-> "none", available |-> TRUE]

\* the calories dataset is parsed inside "try ... except Exception":
\* calories_available after it
ParseCalories(cal, available) ==
    available /\ cal.kind = "ok"

\* calorie_map / cal_map: the last entry of each minute wins
RECURSIVE CalorieMap(_)
CalorieMap(ds) ==
    IF ds = <<>>
        THEN <<>>
        ELSE LET rest == CalorieMap(SubSeq(ds, 1, Len(ds) - 1))
                 e == ds[Len(ds)]
                 key == replace_second_0(e.time)
             IN  [k \in DOMAIN rest \cup {key} |->
                     IF k = key THEN e.value ELSE rest[k]]

\* calorie_map.get(min_key)
MapGet(m, key) == IF key \in DOMAIN m THEN <<m[key]>> ELSE NoCal

\* create_tcx lines 170-182: "if cal_per_min:" then cal_per_min / 60.0
TcxCalories(available, m, local) ==
    LET got == MapGet(m, replace_second_0(local))
    IN  IF available /\ got # NoCal /\ got[1] # 0
            THEN <<got[1], 60>>
            ELSE NoCal

\* create_fit lines 252-256: "if cal_min is not None:" then cal_min / 60.0
FitCalories(available, m, local) ==
    LET got == MapGet(m, replace_second_0(local))
    IN  IF available /\ got # NoCal
            THEN <<got[1], 60>>
            ELSE NoCal

\* create_fit lines 109, 122, 207-208, 229-230: distance_m / duration_s, the
\* quotient as metres over milliseconds; Python raises on a zero divisor
avg_speed(distance_km, duration_ms) ==
    IF duration_ms = 0
        THEN [fault |-> "ZeroDivisionError", m |-> 0, ms |-> 1]
        ELSE [fault |-> "none", m |-> distance_km * 1000, ms |-> duration_ms]

Raised(mode, exc) ==
    [mode |-> mode, result |-> "raised", exc |-> exc, id |-> 0, lap |-> 0,
     records |-> <<>>]

\* create_tcx(log_id)
CreateTcx(in) ==
    LET loaded == LoadCalories(in.cal)
        available == ParseCalories(in.cal, loaded.available)
        m == IF in.cal.kind = "ok" THEN CalorieMap(in.cal.dataset) ELSE <<>>
    IN  IF loaded.raised # "none" THEN Raised("tcx", loaded.raised)
        ELSE IF in.hr = <<>> THEN Raised("tcx", "ValueError")
        ELSE [mode |-> "tcx",
              result |-> "written",
              exc |-> "none",
              id |-> strftime_Z(in.start, in.off),
              lap |-> strftime_Z(in.start, in.off),
              records |->
                 [k \in 1..Len(in.hr) |->
                     [time |-> strftime_Z(in.hr[k].time, in.off),
                      hr |-> in.hr[k].value,
                      cal |-> TcxCalories(available, m, in.hr[k].time)]]]

\* create_fit(log_id)
CreateFit(in) ==
    LET loaded == LoadCalories(in.cal)
        available == ParseCalories(in.cal, loaded.available)
        m == IF in.cal.kind = "ok" THEN CalorieMap(in.cal.dataset) ELSE <<>>
    IN  IF loaded.raised # "none" THEN Raised("fit", loaded.raised)
        ELSE IF in.hr = <<>> THEN Raised("fit", "RuntimeError")
        ELSE IF avg_speed(in.distance, in.duration).fault # "none"
            THEN Raised("fit", avg_speed(in.distance, in.duration).fault)
        ELSE [mode |-> "fit",
              result |-> "written",
              exc |-> "none",
              speed |-> avg_speed(in.distance, in.duration),
              id |-> 1000 * astimezone_utc(in.start, in.off),
              lap |-> 1000 * astimezone_utc(in.start, in.off),
              records |->
                 [k \in 1..Len(in.hr) |->
                     [time |-> 1000 * astimezone_utc(in.hr[k].time, in.off),
                      hr |-> in.hr[k].value,
                      cal |-> FitCalories(available, m, in.hr[k].time)]]]

create_tcx ==
    /\ encOut = EncIdle
    /\ encOut' = CreateTcx(encIn)
    /\ UNCHANGED <<pc, isTcx, diskVars, runVars, localVars, wrapVars, endVars,
                   encIn>>

create_fit ==
    /\ encOut = EncIdle
    /\ encOut' = CreateFit(encIn)
    /\ UNCHANGED <<pc, isTcx, diskVars, runVars, localVars, wrapVars, endVars,
                   encIn>>

EncInit ==
    /\ PipeInit
    /\ encIn \in EncInputs
    /\ encOut = EncIdle

EncNext ==
    \/ create_tcx
    \/ create_fit

EncSpec == EncInit /\ [][EncNext]_vars

----------------------------------------------------------------------------
(* Properties of the pipeline *)

Running == status = "running"

\* the positions of the list fetch, line 76 to line 86
ListPcs == {"listCall", "openList", "writeList", "touch"}

\* the positions of an activity after the decision gate
ProcessPcs == {"hrCall", "hrOpen", "hrWrite", "calCheck", "calCall", "calOpen",
               "calWrite", "encode", "encOpen", "encWrite"}

\* C1: the marker file exists only if the list file holds every activity of
\* the list that was fetched for it, one per line; this holds in every state,
\* those after a crash and a restart included.
C1_MarkerOnlyAfterCompleteList ==
    marker => (listFile.exists /\ listFile.lines = fetched)

\* a run that found a list file without its marker has written the list again
\* and touched the marker
C1_Witness ==
    /\ pc = "count"
    /\ marker
    /\ ~markerAtStart
    /\ listAtStart.exists
    /\ Len(listFile.lines) = 2

\* C2: a run that finds the marker sends no list call and works on the list
\* file as it found it; a run that does not find the marker fetches the list.
C2_MarkerDecidesListFetch ==
    (Running /\ pc # "checkList") =>
        /\ markerAtStart <=> (pc \notin ListPcs /\ <<"list", 0>> \notin calls)
        /\ markerAtStart => listFile = listAtStart

\* a run over a cached list is at its second activity
C2_Witness ==
    /\ Running
    /\ markerAtStart
    /\ pc = "tcxCall"
    /\ i = 2

\* C3 as stated: an activity is skipped exactly when (it is auto_detected or
\* its payload has at most 15 lines) and it has no heart-rate link, and a
\* skipped activity leaves no file of its logId in the output directory.
C3_SkipIffUnlinkedAndEmpty ==
    (pc \in ProcessPcs \cup {"confirm"}) =>
        /\ (pc = "confirm") <=>
              /\ (logType(log_id) = "auto_detected" \/ tcx <= 15)
              /\ heartRateLink(log_id) = Missing
        /\ (pc = "confirm") =>
              \A k \in Kinds : ~Exists(dir, log_id, k)

\* C3 amended: an activity is fetched and encoded exactly when (it is
\* auto_detected or its payload has at most 15 newlines) and it has a
\* heart-rate link; otherwise it is skipped, and the skip sends no heart-rate
\* call, no calorie call, calls no encoder, and finds exercise-activity.json
\* written.
C3_ProcessIffLinkedAndEmpty ==
    (pc \in ProcessPcs \cup {"confirm"}) =>
        /\ (pc \in ProcessPcs) <=>
              /\ (logType(log_id) = "auto_detected" \/ tcx <= 15)
              /\ heartRateLink(log_id) # Missing
        /\ (pc = "confirm") =>
              /\ <<"hr", log_id>> \notin calls
              /\ <<"cal", log_id>> \notin calls
              /\ enc = NoEnc
              /\ Exists(dir, log_id, "act")

\* a manual activity with a heart-rate link and a payload of 16 lines is skipped
C3_Witness ==
    /\ pc = "confirm"
    /\ logType(log_id) = "manual"
    /\ heartRateLink(log_id) # Missing
    /\ tcx = 16

Transient == {"ClientResponseError", "TimeoutError"}

InWrapper == wstage # "none"

\* the wrapper is left by its return, by the process being killed, or by an
\* exception that is not a transient failure
LeftWrapper ==
    /\ wstage = "none"
    /\ \/ status \in {"running", "crashed"}
       \/ status = "aborted" /\ surfaced \notin Transient

\* C4: a transient failure (asyncio.TimeoutError, aiohttp.ClientResponseError)
\* never ends a run; after it the wrapper is at the start of its loop for the
\* same call; and when the upstream eventually answers, the wrapper is left,
\* by its return unless the process is killed or another exception rises.
C4_TransientRetriedUntilAnswered ==
    /\ [](surfaced \notin Transient)
    /\ [](raised # NoExc => (pc \in CallPcs /\ wstage = "auth" /\ retried))
    /\ (InWrapper ~> LeftWrapper)

\* the heart-rate call is sent again after a transient failure of its first sending
C4_Witness ==
    /\ pc = "hrCall"
    /\ retried
    /\ wstage = "send"
    /\ <<"hr", log_id>> \in calls

\* C5 as stated: a failure of execute_oauth2_flow is never retried by the
\* wrapper's loop, whatever the exception.
C5_ExchangeFailureNeverRetried ==
    ~(InWrapper /\ raised.at = "oauth")

\* C5 amended: the wrapper's loop starts again only after an
\* asyncio.TimeoutError or an aiohttp.ClientResponseError, of the exchange or
\* of the wrapped call; every other exception of either ends the run, and
\* the run ended by the exchange or the call ends with that exception.
C5_OnlyTransientRetried ==
    /\ raised # NoExc => raised.exc \in Transient
    /\ status = "aborted" =>
          surfaced \in {"OAuthError", "ValueError", "FileNotFoundError",
                        "JSONDecodeError"}

\* the exchange failed with a ClientResponseError and the loop started again
C5_Witness ==
    /\ InWrapper
    /\ raised = [exc |-> "ClientResponseError", at |-> "oauth"]

\* the positions of an activity after get_activity_tcx has returned
AfterTcxPcs == ProcessPcs \cup {"actFile", "actDump", "gate", "confirm"}

\* the file the claim takes for the cache of a call
CacheOf(c) ==
    CASE c[1] = "list" -> listFile.exists
      [] c[1] = "tcx" -> Exists(dir, c[2], "act")
      [] c[1] = "hr" -> Exists(dir, c[2], "hr")
      [] c[1] = "cal" -> Exists(dir, c[2], "cal")

\* C6 as stated: every retrieval step (list, per-activity payload, heart
\* rate, calories) sends its call only when its cached file is absent, so a
\* run over data persisted by an earlier run sends none.
C6_CallOnlyIfNotCached ==
    [][\A c \in calls' \ calls : ~CacheOf(c)]_vars

\* C6 amended: the heart-rate and the calorie call are sent only when their
\* file is absent, the list call only when the list file or its marker is
\* absent; the per-activity payload is kept in no file, it is fetched for
\* every activity of every run.
C6_CallOnlyIfNotCachedButTcx ==
    /\ [][\A c \in calls' \ calls :
            /\ c[1] = "list" => ~(listFile.exists /\ marker)
            /\ c[1] = "hr" => ~Exists(dir, c[2], "hr")
            /\ c[1] = "cal" => ~Exists(dir, c[2], "cal")]_vars
    /\ [](pc \in AfterTcxPcs => <<"tcx", log_id>> \in calls)

\* a run over a cached list has fetched the payload of an activity whose
\* heart-rate file it found, and has not fetched the heart rate
C6_Witness ==
    /\ Running
    /\ markerAtStart
    /\ pc = "calCheck"
    /\ <<"tcx", log_id>> \in calls
    /\ <<"hr", log_id>> \notin calls

\* the file a position of the run holds open for writing
BeingWritten(p) ==
    \/ pc = "actDump" /\ p = File(dir, log_id, "act")
    \/ pc = "hrWrite" /\ p = File(dir, log_id, "hr")
    \/ pc = "calWrite" /\ p = File(dir, log_id, "cal")
    \/ pc = "encWrite" /\ p = File(enc.dir, log_id, OutKind)

\* C7 as stated: no step changes the content of a file that exists (.auth,
\* the list file, the marker, the per-activity files, the encoder outputs),
\* the write that creates a file apart.
C7_NoExistingFileChanged ==
    [][/\ auth # NoAuth => auth' = auth
       /\ (listFile.exists /\ pc # "writeList") => listFile' = listFile
       /\ marker => marker'
       /\ \A p \in Paths :
            (Content(p) # Absent /\ ~BeingWritten(p)) => Content(p)' = Content(p)]_vars

\* C7 amended: no step changes an existing exercise-activity.json,
\* exercise-heart-rate.json or exercise-calories.json, nor a list file whose
\* marker exists, nor removes the marker.
C7_CachedFilesNeverChanged ==
    [][/\ marker => (marker' /\ listFile' = listFile)
       /\ \A p \in Paths :
            (p[3] \in {"act", "hr", "cal"} /\ Content(p) # Absent /\ ~BeingWritten(p))
                => Content(p)' = Content(p)]_vars

\* a run is past the write of an exercise-activity.json that an earlier run
\* left truncated, and has left it as it was
C7_Witness ==
    /\ pc = "gate"
    /\ Content(File(dir, log_id, "act")) = "partial"

\* C8: the encoder reads and writes in the output directory of the run, and
\* finds there the files the run wrote.
C8_EncoderUsesOutputDirectory ==
    /\ enc # NoEnc => enc.dir = dir
    /\ surfaced # "FileNotFoundError"

----------------------------------------------------------------------------
(* Properties of the encoders *)

Encoded == encOut # EncIdle

\* C9: with a non-empty heart-rate series and a positive duration, calorie
\* data that is absent or does not parse never aborts an encoder: the output
\* is written, with one record per heart-rate sample and no calorie value.
C9_UnusableCaloriesNeverAbort ==
    (/\ Encoded
     /\ encIn.hr # <<>>
     /\ encIn.duration > 0
     /\ encIn.cal.kind # "ok") =>
        /\ encOut.result = "written"
        /\ Len(encOut.records) = Len(encIn.hr)
        /\ \A k \in 1..Len(encOut.records) : encOut.records[k].cal = NoCal

\* the instant a time of the output denotes: a Z-suffixed text in a TCX
\* file, milliseconds of UTC in a FIT file
InstantOf(mode, t) ==
    IF mode = "tcx" THEN InstantOfZ(t) ELSE t \div 1000

\* C10: with a start time whose offset is not UTC, the Time of every
\* Trackpoint, the activity Id and the Lap StartTime of the TCX file denote
\* the instants of the source timestamps, as the timestamps of the FIT file do.
C10_TimesDenoteSourceInstants ==
    (/\ Encoded
     /\ encOut.result = "written"
     /\ encIn.off # 0) =>
        /\ InstantOf(encOut.mode, encOut.id) = encIn.start - encIn.off
        /\ InstantOf(encOut.mode, encOut.lap) = encIn.start - encIn.off
        /\ \A k \in 1..Len(encOut.records) :
              InstantOf(encOut.mode, encOut.records[k].time)
                  = encIn.hr[k].time - encIn.off

----------------------------------------------------------------------------
(* Properties of a run over files an earlier run left truncated *)

\* the positions of an activity after exercise-heart-rate.json was looked for
AfterHrPcs == {"calCheck", "calCall", "calOpen", "calWrite", "encode", "encOpen",
               "encWrite"}

\* the positions of an activity after exercise-calories.json was looked for
AfterCalPcs == {"encode", "encOpen", "encWrite"}

\* C11: a run that is past the step that looks for a file works on the whole
\* data, never on what a killed run left truncated: past the list step the
\* list file holds the fetched list, past each per-activity check the
\* exercise-activity.json, exercise-heart-rate.json and exercise-calories.json
\* of the activity is not a truncated one.
C11_TruncatedFileWrittenAgain ==
    Running =>
        /\ (pc \notin ListPcs \cup {"checkList"}) =>
              (listFile.exists /\ listFile.lines = fetched)
        /\ (pc \in AfterTcxPcs \ {"actFile", "actDump"}) =>
              Content(File(dir, log_id, "act")) # "partial"
        /\ (pc \in AfterHrPcs) =>
              Content(File(dir, log_id, "hr")) # "partial"
        /\ (pc \in AfterCalPcs) =>
              Content(File(dir, log_id, "cal")) # "partial"

----------------------------------------------------------------------------
(* Properties of the records the encoders emit *)

Written == Encoded /\ encOut.result = "written"

\* calories_available after the load and the parse of the calories file
CaloriesAvailable == ParseCalories(encIn.cal, LoadCalories(encIn.cal).available)

\* the calorie map the encoder builds from the calories file
CaloriesOf == IF encIn.cal.kind = "ok" THEN CalorieMap(encIn.cal.dataset) ELSE <<>>

\* C12: an encoder that writes its output emits one record per heart-rate
\* sample, and the record of a sample carries a calorie value exactly when
\* calories are available and the calorie map has an entry for the sample's
\* minute; the value is the entry's value divided by 60, also when it is 0.
C12_CaloriesIffMinuteEntry ==
    Written =>
        /\ Len(encOut.records) = Len(encIn.hr)
        /\ \A k \in 1..Len(encOut.records) :
              LET key == replace_second_0(encIn.hr[k].time)
                  has == CaloriesAvailable /\ key \in DOMAIN CaloriesOf
              IN  /\ (encOut.records[k].cal # NoCal) <=> has
                  /\ has => encOut.records[k].cal = <<CaloriesOf[key], 60>>

\* C13: with a non-empty heart-rate series, create_fit raises no division
\* fault whatever the duration and the distance, and the average speed it
\* writes is distanceMeters / durationSeconds, zero when the distance is zero.
C13_AverageSpeedWithoutFault ==
    (Encoded /\ encOut.mode = "fit" /\ encIn.hr # <<>>) =>
        /\ encOut.exc # "ZeroDivisionError"
        /\ encOut.result = "written" =>
              /\ encOut.speed.m * encIn.duration
                    = encIn.distance * 1000 * encOut.speed.ms
              /\ encIn.distance = 0 => encOut.speed.m = 0

DaySeconds == 24 * 3600

\* the seconds from the start of the activity to a sample at time of day t
Elapsed(t) == (t - encIn.start) % DaySeconds

\* the heart-rate dataset lists the samples of the activity, between its
\* start and its end, in the order they were taken
Chronological ==
    /\ \A k \in 1..Len(encIn.hr) : Elapsed(encIn.hr[k].time) * 1000 <= encIn.duration
    /\ \A k \in 1..(Len(encIn.hr) - 1) :
          Elapsed(encIn.hr[k].time) <= Elapsed(encIn.hr[k + 1].time)

\* C14: when the heart-rate dataset lists its samples in chronological
\* order, the times of the emitted records (FIT) and Trackpoints (TCX) are
\* non-decreasing in output order.
C14_TimestampsNonDecreasing ==
    (Written /\ Chronological) =>
        \A k \in 1..(Len(encOut.records) - 1) :
            InstantOf(encOut.mode, encOut.records[k].time)
                <= InstantOf(encOut.mode, encOut.records[k + 1].time)

====
